---- MODULE Spec2Model ----
(***************************************************************************)
(* Model of IREL_AG2050_Final_Visual_Attribution.py, a Streamlit dashboard *)
(* script.  Streamlit re-executes the whole script, top to bottom, after   *)
(* every widget change; one action of this model is one widget change      *)
(* followed by the complete rerun it triggers.                             *)
(*                                                                         *)
(* Numbers.  The script computes with floats.  The model computes with     *)
(* exact decimal fractions, each held as an integer numerator:             *)
(*   a dataset metric          in units of 1/MetricDen,                    *)
(*   an adjusted metric        in units of 1/AdjDen  (AdjDen = MetricDen   *)
(*                             * 100, the multipliers being hundredths),   *)
(*   a revenue, the total      in units of 1/EuroDen (EuroDen = AdjDen *   *)
(*                             100, the unit prices being cents).          *)
(* IEEE-754 rounding of the individual float operations is not modelled.   *)
(* Strings of the persona names are written in ASCII ("EIREA" for the      *)
(* script's accented spelling).  The charts (lines 125-167) and the footer *)
(* only read df and the revenues and are not modelled.                     *)
(***************************************************************************)
EXTENDS Integers, Sequences, FiniteSets, TLC

(* ------------------------------ bounds -------------------------------- *)

\* Number of years the dataset family may cover.
NumYears == 3

\* The dataset family assigns the metric samples to the rows cyclically,
\* starting at any offset in 0..MaxShift.
MaxShift == 1

\* Resolution of a dataset metric: a CSV value is a multiple of 1/MetricDen.
MetricDen == 10

(* ------------------------- program constants -------------------------- *)

\* st.sidebar.slider(..., value=2025)
DefaultYear == 2025

\* yield_boost *= 1.1, solar_pct *= 1.15, biomass *= 1.2,
\* carbon_offset *= 1.05, each as hundredths
AgroMultiplier == 110
SolarMultiplier == 115
BiomassMultiplier == 120
CarbonMultiplier == 105

\* unit prices in cents: 0.22, 85, and the literals 120 and 45
grain_price_per_kg == 22
price_per_tonne == 8500
solar_unit_value == 12000
biomass_unit_value == 4500

AdjDen == MetricDen * 100
EuroDen == AdjDen * 100

(* ------------------------------ dataset -------------------------------- *)

CountyNames == <<"Cork", "Kerry">>
Counties == {CountyNames[i] : i \in 1..Len(CountyNames)}
Years == (DefaultYear - 1)..(DefaultYear - 2 + NumYears)

\* Metric values a CSV row may carry (numerators over MetricDen): the
\* spec's example row, a row with fractional values, a small row, a row
\* with negative values, and an all-zero row.
MetricSamples ==
  << [CRISPR_YieldBoost |-> 1000 * MetricDen, SolarAdoption |-> 30 * MetricDen,
      BiomassOutput |-> 50 * MetricDen, CarbonCreditsEarned |-> 10 * MetricDen],
     [CRISPR_YieldBoost |-> 1234 * MetricDen + 5, SolarAdoption |-> 12 * MetricDen + 3,
      BiomassOutput |-> 7 * MetricDen + 7, CarbonCreditsEarned |-> 3 * MetricDen + 3],
     [CRISPR_YieldBoost |-> 60 * MetricDen + 1, SolarAdoption |-> 5 * MetricDen,
      BiomassOutput |-> 2 * MetricDen, CarbonCreditsEarned |-> 1 * MetricDen + 1],
     [CRISPR_YieldBoost |-> 0 - 120 * MetricDen, SolarAdoption |-> 2 * MetricDen + 5,
      BiomassOutput |-> 0 - 10 * MetricDen, CarbonCreditsEarned |-> 0],
     [CRISPR_YieldBoost |-> 0, SolarAdoption |-> 0,
      BiomassOutput |-> 0, CarbonCreditsEarned |-> 0] >>

\* The complete table, county-major, one row per (County, Year), the metric
\* samples assigned cyclically from offset shift.
FullTable(shift) ==
  [i \in 1..(Len(CountyNames) * NumYears) |->
     LET m == MetricSamples[((i - 1 + shift) % Len(MetricSamples)) + 1] IN
     [County |-> CountyNames[((i - 1) \div NumYears) + 1],
      Year |-> (DefaultYear - 1) + ((i - 1) % NumYears),
      CRISPR_YieldBoost |-> m.CRISPR_YieldBoost,
      SolarAdoption |-> m.SolarAdoption,
      BiomassOutput |-> m.BiomassOutput,
      CarbonCreditsEarned |-> m.CarbonCreditsEarned]]

Keys == Counties \X Years

\* A CSV file: the rows of the complete table whose key is in P, in file
\* order.  A (County, Year) outside P has no row.
Table(P, shift) ==
  SelectSeq(FullTable(shift), LAMBDA r : <<r.County, r.Year>> \in P)

YearsOf(d) == {d[i].Year : i \in 1..Len(d)}
MinYear(d) == CHOOSE y \in YearsOf(d) : \A z \in YearsOf(d) : y <= z
MaxYear(d) == CHOOSE y \in YearsOf(d) : \A z \in YearsOf(d) : y >= z

\* df["County"].unique(): the counties of the file, in order of appearance.
CountyOptions(d) == {d[i].County : i \in 1..Len(d)}
\* slider range int(df["Year"].min()) .. int(df["Year"].max())
YearOptions(d) == MinYear(d)..MaxYear(d)

\* The files the dashboard starts on: non-empty, and the slider's default
\* value 2025 inside the slider's range.
Datasets ==
  {Table(P, shift) :
     P \in {Q \in SUBSET Keys :
              /\ Q # {}
              /\ \E k \in Q : k[2] <= DefaultYear
              /\ \E k \in Q : k[2] >= DefaultYear},
     shift \in 0..MaxShift}

(* ------------------------------ state ---------------------------------- *)

VARIABLES
  df,               \* the cached dataset (load_data)
  selected_county, selected_year,
  agro_toggle, solar_toggle, bio_toggle,
  persona, question,
  page,             \* what the last run bound and displayed (see Run)
  call, ret         \* a direct call of generate_persona_response

widgets == <<selected_county, selected_year, agro_toggle, solar_toggle,
             bio_toggle, persona, question>>
vars == <<df, widgets, page, call, ret>>

(* --------------------------- pure helpers ------------------------------ *)

PersonaOptions == <<"EIREA", "SOLARA", "GRAINA", "AI-SCEAL">>
PersonaSet == {PersonaOptions[i] : i \in 1..Len(PersonaOptions)}
\* What a caller other than the selectbox may pass as persona.
PersonaInputs == PersonaSet \cup {"OTHER"}
\* What st.text_input may hold.
Questions == {"", "q1", "q2"}

\* A name the script has not bound (the run ended before its assignment).
Unbound == "unbound"

\* A string shown to the user: the template chosen and the values put in it.
Message(text, county, nums) == [text |-> text, county |-> county, nums |-> nums]
NoData == Message("No data available for this county and year.", "", <<>>)
NoPersona == Message("No persona selected.", "", <<>>)
NoResponse == Message("", "", <<>>)

\* df[(df["County"] == county) & (df["Year"] == year)]
Filter(d, county, year) ==
  SelectSeq(d, LAMBDA r : r.County = county /\ r.Year = year)

\* num/den rounded to the nearest integer, ties to even (den > 0).
RoundHalfEven(num, den) ==
  LET q == num \div den
      r == num % den
  IN IF 2 * r < den THEN q
     ELSE IF 2 * r > den THEN q + 1
     ELSE IF q % 2 = 0 THEN q ELSE q + 1

Pow10(n) == IF n = 0 THEN 1 ELSE IF n = 1 THEN 10 ELSE 100

\* f"{x:.<decimals>f}" and round(x, decimals) of x = num/den: the number
\* shown, as an integer count of 10^-decimals.
Fmt(num, den, decimals) ==
  IF den % Pow10(decimals) = 0
    THEN RoundHalfEven(num, den \div Pow10(decimals))
    ELSE RoundHalfEven(num * Pow10(decimals), den)

(* --------------------------- the calculator ---------------------------- *)

ApplyToggles_AgroScalesCarbon(row, agro, solar, bio) ==
  [yield_boost |-> row.CRISPR_YieldBoost * (IF agro THEN AgroMultiplier ELSE 100),
   solar_pct |-> row.SolarAdoption * (IF solar THEN SolarMultiplier ELSE 100),
   biomass |-> row.BiomassOutput * (IF bio THEN BiomassMultiplier ELSE 100),
   carbon_offset |-> row.CarbonCreditsEarned * (IF agro THEN CarbonMultiplier ELSE 100)]

ApplyToggles_BioSkipsCarbon(row, agro, solar, bio) ==
  [yield_boost |-> row.CRISPR_YieldBoost * (IF agro THEN AgroMultiplier ELSE 100),
   solar_pct |-> row.SolarAdoption * (IF solar THEN SolarMultiplier ELSE 100),
   biomass |-> row.BiomassOutput * (IF bio THEN BiomassMultiplier ELSE 100),
   carbon_offset |-> row.CarbonCreditsEarned * 100]

\* Lines 27-38: the four values of the row, each scaled when its toggle is
\* on.  Results are numerators over AdjDen.
ApplyToggles(row, agro, solar, bio) ==
  [yield_boost |-> row.CRISPR_YieldBoost * (IF agro THEN AgroMultiplier ELSE 100),
   solar_pct |-> row.SolarAdoption * (IF solar THEN SolarMultiplier ELSE 100),
   biomass |-> row.BiomassOutput * (IF bio THEN BiomassMultiplier ELSE 100),
   carbon_offset |-> row.CarbonCreditsEarned * (IF bio THEN CarbonMultiplier ELSE 100)]

EconomicImpact_SwappedPrices(adj) ==
  LET ss == adj.solar_pct * biomass_unit_value
      br == adj.biomass * solar_unit_value
      cr == adj.carbon_offset * price_per_tonne
      yr == adj.yield_boost * grain_price_per_kg
  IN [solar_savings |-> ss, bio_revenue |-> br, carbon_revenue |-> cr,
      yield_revenue |-> yr, total_impact |-> yr + ss + br + cr]

EconomicImpact_TotalOmitsCarbon(adj) ==
  LET ss == adj.solar_pct * solar_unit_value
      br == adj.biomass * biomass_unit_value
      cr == adj.carbon_offset * price_per_tonne
      yr == adj.yield_boost * grain_price_per_kg
  IN [solar_savings |-> ss, bio_revenue |-> br, carbon_revenue |-> cr,
      yield_revenue |-> yr, total_impact |-> yr + ss + br]

\* Lines 104-111.  Results are numerators over EuroDen.
EconomicImpact(adj) ==
  LET ss == adj.solar_pct * solar_unit_value
      br == adj.biomass * biomass_unit_value
      cr == adj.carbon_offset * price_per_tonne
      yr == adj.yield_boost * grain_price_per_kg
  IN [solar_savings |-> ss, bio_revenue |-> br, carbon_revenue |-> cr,
      yield_revenue |-> yr, total_impact |-> yr + ss + br + cr]

CacheAfterRun_WriteThrough(d, county, year, adj) ==
  [i \in 1..Len(d) |->
     IF d[i].County = county /\ d[i].Year = year
       THEN [d[i] EXCEPT !.CRISPR_YieldBoost = adj.yield_boost \div 100,
                         !.SolarAdoption = adj.solar_pct \div 100,
                         !.BiomassOutput = adj.biomass \div 100,
                         !.CarbonCreditsEarned = adj.carbon_offset \div 100]
       ELSE d[i]]

\* Lines 24-38 write nothing to df: data_filtered is a .copy(), .values[0]
\* yields scalars, and each *= rebinds a local name.
CacheAfterRun(d, county, year, adj) == d

(* ------------------------ the persona generator ------------------------ *)

Min(a, b) == IF a <= b THEN a ELSE b

risk_score_NoCap(yield_val, solar_val, bio_val) ==
  100 * 6 * MetricDen - (yield_val + 6 * solar_val + 12 * bio_val)

\* Line 80: 100 - min(100, yield_val/6 + solar_val + bio_val*2), as a
\* numerator over 6 * MetricDen.
risk_score(yield_val, solar_val, bio_val) ==
  100 * 6 * MetricDen
    - Min(100 * 6 * MetricDen, yield_val + 6 * solar_val + 12 * bio_val)

\* The templates of lines 61-87 for a resolved row.
Template(p, county, year, yield_val, solar_val, bio_val, carbon_val, den) ==
  IF p = "EIREA" THEN
    Message("EIREA", county,
            <<year, Fmt(yield_val, den, 1), Fmt(yield_val, den, 1)>>)
  ELSE IF p = "SOLARA" THEN
    Message("SOLARA", county,
            <<year, Fmt(solar_val, den, 1),
              Fmt(solar_val * SolarMultiplier, den * 100, 1), year + 1>>)
  ELSE IF p = "GRAINA" THEN
    Message("GRAINA", county,
            <<Fmt(yield_val, den, 0), Fmt(carbon_val, den, 2), (year % 4) + 1>>)
  ELSE IF p = "AI-SCEAL" THEN
    Message("AI-SCEAL", county,
            <<year, Fmt(risk_score(yield_val, solar_val, bio_val), 6 * den, 1)>>)
  ELSE NoPersona


generate_persona_response_NoEmptyCheck(p, county, year, d) ==
  LET row == Filter(d, county, year) IN
  IF Len(row) = 0
    THEN Template(p, county, year, 0, 0, 0, 0, MetricDen)
    ELSE Template(p, county, year, row[1].CRISPR_YieldBoost, row[1].SolarAdoption,
                  row[1].BiomassOutput, row[1].CarbonCreditsEarned, MetricDen)

generate_persona_response_LastBranchIsElse(p, county, year, d) ==
  LET row == Filter(d, county, year) IN
  IF Len(row) = 0 THEN NoData
  ELSE Template(IF p \in {"EIREA", "SOLARA", "GRAINA"} THEN p ELSE "AI-SCEAL",
                county, year, row[1].CRISPR_YieldBoost, row[1].SolarAdoption,
                row[1].BiomassOutput, row[1].CarbonCreditsEarned, MetricDen)

\* Lines 51-87.  The emptiness test comes first; the four metric fields
\* are read from the first matching row only after it.
generate_persona_response(p, county, year, d) ==
  LET row == Filter(d, county, year) IN
  IF Len(row) = 0 THEN NoData
  ELSE Template(p, county, year, row[1].CRISPR_YieldBoost, row[1].SolarAdoption,
                row[1].BiomassOutput, row[1].CarbonCreditsEarned, MetricDen)

(* ------------------------------ one run -------------------------------- *)

\* One execution of the script (lines 24-123) on cached dataset d with the
\* sidebar state (c, y, a, s, b) and persona response resp: the names it
\* binds and the values it displays.
\*   error              "none", or the exception that ended the run
\*   yield_boost ... carbon_offset    the adjusted metrics (lines 27-38)
\*   kpi_display        the four col.metric strings of lines 45-48
\*   response           st.success(response), or NoResponse
\*   yield_revenue ... total_impact   lines 106-111
\*   impact_display     f"{total_impact:,.0f}" (line 114)
\*   breakdown_display  the four round(x, 2) of lines 118-123
\* With no matching row, data_filtered[...].values is empty and .values[0]
\* on line 27 raises IndexError: the run ends there, before any metric, the
\* persona widgets or the economic section.
Outputs(d, c, y, a, s, b, resp) ==
  LET data_filtered == Filter(d, c, y) IN
  IF Len(data_filtered) = 0 THEN
    [error |-> "IndexError",
     yield_boost |-> Unbound, solar_pct |-> Unbound, biomass |-> Unbound,
     carbon_offset |-> Unbound, kpi_display |-> Unbound,
     response |-> NoResponse,
     yield_revenue |-> Unbound, solar_savings |-> Unbound, bio_revenue |-> Unbound,
     carbon_revenue |-> Unbound, total_impact |-> Unbound,
     impact_display |-> Unbound, breakdown_display |-> Unbound]
  ELSE
    LET adj == ApplyToggles(data_filtered[1], a, s, b)
        econ == EconomicImpact(adj)
    IN
    [error |-> "none",
     yield_boost |-> adj.yield_boost, solar_pct |-> adj.solar_pct,
     biomass |-> adj.biomass, carbon_offset |-> adj.carbon_offset,
     kpi_display |-> <<Fmt(adj.yield_boost, AdjDen, 1), Fmt(adj.solar_pct, AdjDen, 1),
                       Fmt(adj.biomass, AdjDen, 2), Fmt(adj.carbon_offset, AdjDen, 2)>>,
     response |-> resp,
     yield_revenue |-> econ.yield_revenue, solar_savings |-> econ.solar_savings,
     bio_revenue |-> econ.bio_revenue, carbon_revenue |-> econ.carbon_revenue,
     total_impact |-> econ.total_impact,
     impact_display |-> Fmt(econ.total_impact, EuroDen, 0),
     breakdown_display |-> <<Fmt(econ.yield_revenue, EuroDen, 2),
                             Fmt(econ.solar_savings, EuroDen, 2),
                             Fmt(econ.bio_revenue, EuroDen, 2),
                             Fmt(econ.carbon_revenue, EuroDen, 2)>>]

Run_PersonaSeesAdjusted(d, c, y, a, s, b, p, q) ==
  Outputs(d, c, y, a, s, b,
          IF q = "" THEN NoResponse
          ELSE LET adj == ApplyToggles(Filter(d, c, y)[1], a, s, b)
               IN Template(p, c, y, adj.yield_boost, adj.solar_pct,
                           adj.biomass, adj.carbon_offset, AdjDen))

\* Lines 95-97 inside the run: the persona generator is called only for a
\* non-empty question, with the selected county and year and the whole df.
Run(d, c, y, a, s, b, p, q) ==
  Outputs(d, c, y, a, s, b,
          IF q = "" THEN NoResponse ELSE generate_persona_response(p, c, y, d))

\* The dataset a run leaves in the cache.
DfAfterRun(d, c, y, a, s, b) ==
  LET data_filtered == Filter(d, c, y) IN
  IF Len(data_filtered) = 0 THEN d
  ELSE CacheAfterRun(d, c, y, ApplyToggles(data_filtered[1], a, s, b))

\* The state after a rerun with sidebar state (c, y, a, s, b) and persona
\* widgets (p, q).  Streamlit drops the state of a widget a run did not
\* render: after a run that ended on line 27 the persona selectbox and the
\* question box (lines 92-93) are back at their defaults.
Rerun(c, y, a, s, b, p, q) ==
  /\ selected_county' = c
  /\ selected_year' = y
  /\ agro_toggle' = a
  /\ solar_toggle' = s
  /\ bio_toggle' = b
  /\ page' = Run(df, c, y, a, s, b, p, q)
  /\ df' = DfAfterRun(df, c, y, a, s, b)
  /\ persona' = IF page'.error = "none" THEN p ELSE PersonaOptions[1]
  /\ question' = IF page'.error = "none" THEN q ELSE ""
  /\ UNCHANGED <<call, ret>>

NoCall == [persona |-> "", county |-> "", year |-> 0]

\* The first run: the file is loaded (lines 7-11), every widget is at its
\* default (first county of the file, 2025, boxes unchecked, first persona,
\* empty question).
Init ==
  /\ df \in Datasets
  /\ selected_county = df[1].County
  /\ selected_year = DefaultYear
  /\ agro_toggle = FALSE
  /\ solar_toggle = FALSE
  /\ bio_toggle = FALSE
  /\ persona = PersonaOptions[1]
  /\ question = ""
  /\ page = Run(df, selected_county, selected_year, FALSE, FALSE, FALSE,
                PersonaOptions[1], "")
  /\ call = NoCall
  /\ ret = NoResponse

(* ------------------------------ actions -------------------------------- *)

\* Line 15: the user picks another county of the file.
SelectCounty ==
  \E c \in CountyOptions(df) :
    /\ c # selected_county
    /\ Rerun(c, selected_year, agro_toggle, solar_toggle, bio_toggle,
             persona, question)

\* Line 16: the user moves the year slider within min..max of the file.
SelectYear ==
  \E y \in YearOptions(df) :
    /\ y # selected_year
    /\ Rerun(selected_county, y, agro_toggle, solar_toggle, bio_toggle,
             persona, question)

\* Lines 19-21: the user flips one checkbox.
ToggleAgro ==
  Rerun(selected_county, selected_year, ~agro_toggle, solar_toggle, bio_toggle,
        persona, question)

ToggleSolar ==
  Rerun(selected_county, selected_year, agro_toggle, ~solar_toggle, bio_toggle,
        persona, question)

ToggleBio ==
  Rerun(selected_county, selected_year, agro_toggle, solar_toggle, ~bio_toggle,
        persona, question)

\* Line 92: the selectbox offers the four personas; it is on the page only
\* when the last run reached it.
ChoosePersona ==
  /\ page.error = "none"
  /\ \E p \in PersonaSet :
       /\ p # persona
       /\ Rerun(selected_county, selected_year, agro_toggle, solar_toggle,
                bio_toggle, p, question)

\* Line 93: the user edits the question.
AskQuestion ==
  /\ page.error = "none"
  /\ \E q \in Questions :
       /\ q # question
       /\ Rerun(selected_county, selected_year, agro_toggle, solar_toggle,
                bio_toggle, persona, q)

Next ==
  \/ SelectCounty
  \/ SelectYear
  \/ ToggleAgro
  \/ ToggleSolar
  \/ ToggleBio
  \/ ChoosePersona
  \/ AskQuestion

Spec == Init /\ [][Next]_vars

\* generate_persona_response called directly, with any persona string and
\* any (county, year), on the loaded dataset.
CallGeneratePersonaResponse ==
  \E p \in PersonaInputs, c \in Counties, y \in Years :
    /\ call' = [persona |-> p, county |-> c, year |-> y]
    /\ ret' = generate_persona_response(p, c, y, df)
    /\ UNCHANGED <<df, widgets, page>>

\* The persona interface of the page (lines 89-97) together with direct
\* calls of the function it uses.
PersonaNext ==
  \/ ChoosePersona
  \/ AskQuestion
  \/ CallGeneratePersonaResponse

PersonaSpec == Init /\ [][PersonaNext]_vars

(* ------------------------------ claims --------------------------------- *)

\* The rows of the dataset for the selected (County, Year), and the first.
SelectedRows == Filter(df, selected_county, selected_year)
BaseRow == SelectedRows[1]
Ran == page.error = "none"

\* The rows a direct call names.
CalledRows == Filter(df, call.county, call.year)
Called == call # NoCall

\* C1: for every selectable (County, Year), also one with no row in the
\* dataset, the run does not crash: with an empty filtered row set no
\* adjusted metric is computed and the run ends without an unhandled error.
C1_MissingRowIsNoData ==
  Len(SelectedRows) = 0 => (page.error = "none" /\ page.yield_boost = Unbound)

\* C2: for every persona and every (County, Year) without a row,
\* generate_persona_response returns exactly the "No data available ..."
\* string (and so raises nothing and reads no field of a row).
C2_MissingRowGivesSentinel ==
  (Called /\ Len(CalledRows) = 0) => ret = NoData

C2_Witness ==
  /\ Called
  /\ Len(CalledRows) = 0
  /\ call.persona = "AI-SCEAL"
  /\ ret = NoData

\* C3: with county, year and the other two toggles unchanged, flipping
\* AgroBoost changes the adjusted yield by the factor 1.10 exactly (on = off
\* * 11/10) and leaves adjusted solar, biomass and carbon as they were.
C3_AgroStep ==
  (/\ agro_toggle' # agro_toggle
   /\ selected_county' = selected_county
   /\ selected_year' = selected_year
   /\ solar_toggle' = solar_toggle
   /\ bio_toggle' = bio_toggle
   /\ page.error = "none"
   /\ page'.error = "none")
  => /\ IF agro_toggle'
          THEN page'.yield_boost * 10 = page.yield_boost * 11
          ELSE page.yield_boost * 10 = page'.yield_boost * 11
     /\ page'.solar_pct = page.solar_pct
     /\ page'.biomass = page.biomass
     /\ page'.carbon_offset = page.carbon_offset

C3_AgroScalesYieldOnly == [][C3_AgroStep]_vars

C3_Witness ==
  /\ Ran
  /\ agro_toggle /\ solar_toggle /\ bio_toggle
  /\ BaseRow.CRISPR_YieldBoost > 0
  /\ page.yield_boost * 10 = BaseRow.CRISPR_YieldBoost * 100 * 11

\* C4: BioBoost on gives biomass = base * 1.20 and carbon = base * 1.05,
\* both at once; BioBoost off gives both at their base values; yield and
\* solar take the value their own toggle gives them, whatever BioBoost is.
C4_BioScalesBiomassAndCarbon ==
  Ran =>
    /\ bio_toggle => /\ page.biomass * 5 = BaseRow.BiomassOutput * 100 * 6
                     /\ page.carbon_offset * 20 = BaseRow.CarbonCreditsEarned * 100 * 21
    /\ ~bio_toggle => /\ page.biomass = BaseRow.BiomassOutput * 100
                      /\ page.carbon_offset = BaseRow.CarbonCreditsEarned * 100
    /\ page.yield_boost * 10 =
         BaseRow.CRISPR_YieldBoost * 100 * (IF agro_toggle THEN 11 ELSE 10)
    /\ page.solar_pct * 20 =
         BaseRow.SolarAdoption * 100 * (IF solar_toggle THEN 23 ELSE 20)

C4_Witness ==
  /\ Ran
  /\ bio_toggle /\ agro_toggle /\ ~solar_toggle
  /\ BaseRow.BiomassOutput > 0
  /\ BaseRow.CarbonCreditsEarned > 0
  /\ page.biomass > BaseRow.BiomassOutput * 100
  /\ page.carbon_offset > BaseRow.CarbonCreditsEarned * 100

\* The spec's example row {Yield=1000, Solar=30, Biomass=50, Carbon=10}.
IsExampleRow(r) ==
  /\ r.CRISPR_YieldBoost = 1000 * MetricDen
  /\ r.SolarAdoption = 30 * MetricDen
  /\ r.BiomassOutput = 50 * MetricDen
  /\ r.CarbonCreditsEarned = 10 * MetricDen

\* C5: the adjusted metrics are the base values times the multipliers of
\* the toggles that are on, the four revenues are adjusted yield * 0.22,
\* adjusted solar * 120, adjusted biomass * 45, adjusted carbon * 85, and
\* the example row with Agro on, Solar off, Bio on gives adjusted
\* {1100, 30, 60, 10.5}, revenues {242, 3600, 2700, 892.5}, total 7434.5.
C5_ReferenceFormulas ==
  Ran =>
    /\ page.yield_boost * 10 =
         BaseRow.CRISPR_YieldBoost * 100 * (IF agro_toggle THEN 11 ELSE 10)
    /\ page.solar_pct * 20 =
         BaseRow.SolarAdoption * 100 * (IF solar_toggle THEN 23 ELSE 20)
    /\ page.biomass * 5 =
         BaseRow.BiomassOutput * 100 * (IF bio_toggle THEN 6 ELSE 5)
    /\ page.carbon_offset * 20 =
         BaseRow.CarbonCreditsEarned * 100 * (IF bio_toggle THEN 21 ELSE 20)
    /\ page.yield_revenue = page.yield_boost * 22
    /\ page.solar_savings = page.solar_pct * 120 * 100
    /\ page.bio_revenue = page.biomass * 45 * 100
    /\ page.carbon_revenue = page.carbon_offset * 85 * 100
    /\ (IsExampleRow(BaseRow) /\ agro_toggle /\ ~solar_toggle /\ bio_toggle) =>
         /\ page.yield_boost = 1100 * AdjDen
         /\ page.solar_pct = 30 * AdjDen
         /\ page.biomass = 60 * AdjDen
         /\ page.carbon_offset * 2 = 21 * AdjDen
         /\ page.yield_revenue = 242 * EuroDen
         /\ page.solar_savings = 3600 * EuroDen
         /\ page.bio_revenue = 2700 * EuroDen
         /\ page.carbon_revenue * 2 = 1785 * EuroDen
         /\ page.total_impact * 2 = 14869 * EuroDen

C5_Witness ==
  /\ Ran
  /\ IsExampleRow(BaseRow)
  /\ agro_toggle /\ ~solar_toggle /\ bio_toggle
  /\ page.total_impact * 2 = 14869 * EuroDen

\* The sum, in cents, of the four revenues as displayed (2 decimals each).
BreakdownSum ==
  page.breakdown_display[1] + page.breakdown_display[2]
    + page.breakdown_display[3] + page.breakdown_display[4]

\* C6: the total is the sum of the four revenues, and the total as
\* displayed (whole euros) is within one euro, the precision it is shown
\* at, of the sum of the four revenues as displayed (cents).
C6_TotalIsSum ==
  Ran =>
    /\ page.total_impact = page.yield_revenue + page.solar_savings
                             + page.bio_revenue + page.carbon_revenue
    /\ page.impact_display * 100 - BreakdownSum <= 100
    /\ BreakdownSum - page.impact_display * 100 <= 100

C6_Witness ==
  /\ Ran
  /\ agro_toggle /\ solar_toggle /\ bio_toggle
  /\ page.carbon_revenue > 0
  /\ page.total_impact = page.yield_revenue + page.solar_savings
                           + page.bio_revenue + page.carbon_revenue
  /\ page.impact_display * 100 # BreakdownSum

\* C7: no interaction changes the loaded dataset, and after every rerun
\* the adjusted metrics and the revenues are the calculation on the
\* dataset's row for the current (County, Year) with the current toggles
\* alone; with every toggle off they are the base values.
C7_Step ==
  /\ df' = df
  /\ page'.error = "none" =>
       LET base == Filter(df, selected_county', selected_year')[1] IN
       /\ page'.yield_boost * 10 =
            base.CRISPR_YieldBoost * 100 * (IF agro_toggle' THEN 11 ELSE 10)
       /\ page'.solar_pct * 20 =
            base.SolarAdoption * 100 * (IF solar_toggle' THEN 23 ELSE 20)
       /\ page'.biomass * 5 =
            base.BiomassOutput * 100 * (IF bio_toggle' THEN 6 ELSE 5)
       /\ page'.carbon_offset * 20 =
            base.CarbonCreditsEarned * 100 * (IF bio_toggle' THEN 21 ELSE 20)
       /\ page'.total_impact =
            page'.yield_boost * 22 + page'.solar_pct * 12000
              + page'.biomass * 4500 + page'.carbon_offset * 8500
       /\ (~agro_toggle' /\ ~solar_toggle' /\ ~bio_toggle') =>
            /\ page'.yield_boost = base.CRISPR_YieldBoost * 100
            /\ page'.solar_pct = base.SolarAdoption * 100
            /\ page'.biomass = base.BiomassOutput * 100
            /\ page'.carbon_offset = base.CarbonCreditsEarned * 100

C7_NothingAccumulates == [][C7_Step]_vars

C7_Witness ==
  /\ Ran
  /\ ~agro_toggle /\ ~solar_toggle /\ ~bio_toggle
  /\ selected_year # DefaultYear
  /\ persona # PersonaOptions[1]
  /\ question # ""
  /\ BaseRow.CRISPR_YieldBoost > 0
  /\ page.yield_boost = BaseRow.CRISPR_YieldBoost * 100

\* C8: called on a resolved row with a persona that is none of the four,
\* generate_persona_response returns exactly "No persona selected."; the
\* page's selectbox holds one of the four and the page never shows that
\* string.
C8_UnknownPersona ==
  /\ (Called /\ Len(CalledRows) > 0 /\ call.persona \notin PersonaSet)
       => ret = NoPersona
  /\ persona \in {"EIREA", "SOLARA", "GRAINA", "AI-SCEAL"}
  /\ page.response # NoPersona

C8_Witness ==
  /\ Called
  /\ Len(CalledRows) > 0
  /\ call.persona \notin PersonaSet
  /\ ret = NoPersona
  /\ page.response # NoResponse
  /\ persona = "AI-SCEAL"

\* The AI-SCEAL score of a row and the weighted sum it is taken from, both
\* as numerators over 6 * MetricDen.
ScoreOf(r) == risk_score(r.CRISPR_YieldBoost, r.SolarAdoption, r.BiomassOutput)
WeightedSum(r) == r.CRISPR_YieldBoost + 6 * r.SolarAdoption + 12 * r.BiomassOutput

\* C9 as stated: some row of the dataset has a negative AI-SCEAL score.
C9_SomeScoreNegative ==
  \E i \in 1..Len(df) : ScoreOf(df[i]) < 0

\* C9 as amended: the cap is on the subtracted term, so the AI-SCEAL score
\* is never negative: it is 0 when Yield/6 + Solar + Biomass*2 >= 100, and
\* 100 minus that sum otherwise, above 100 when the sum is negative; the
\* score shown in the response is the score to one decimal.
C9_ScoreNeverNegative ==
  (Called /\ Len(CalledRows) > 0 /\ call.persona = "AI-SCEAL") =>
    LET r == CalledRows[1] IN
    /\ ScoreOf(r) >= 0
    /\ WeightedSum(r) >= 100 * 6 * MetricDen => ScoreOf(r) = 0
    /\ WeightedSum(r) < 100 * 6 * MetricDen =>
         ScoreOf(r) = 100 * 6 * MetricDen - WeightedSum(r)
    /\ WeightedSum(r) < 0 => ScoreOf(r) > 100 * 6 * MetricDen
    /\ ret.text = "AI-SCEAL"
    /\ ret.nums[2] = RoundHalfEven(ScoreOf(r) * 10, 6 * MetricDen)
    /\ ret.nums[2] >= 0

C9_Witness ==
  /\ Called
  /\ Len(CalledRows) > 0
  /\ call.persona = "AI-SCEAL"
  /\ WeightedSum(CalledRows[1]) > 100 * 6 * MetricDen
  /\ ret.nums[2] = 0

\* C10: between two runs with the same persona, county and year and a
\* non-empty question, whatever the toggles and the question's text, the
\* response is the same string; its figures are those of the raw row.
C10_Step ==
  /\ (/\ persona' = persona
      /\ selected_county' = selected_county
      /\ selected_year' = selected_year
      /\ question # "" /\ question' # ""
      /\ page.error = "none" /\ page'.error = "none")
     => page'.response = page.response
  /\ (page'.error = "none" /\ question' # "") =>
       LET raw == Filter(df, selected_county', selected_year')[1] IN
       /\ persona' = "EIREA" =>
            page'.response.nums[2] =
              RoundHalfEven(raw.CRISPR_YieldBoost * 10, MetricDen)
       /\ persona' = "SOLARA" =>
            page'.response.nums[2] =
              RoundHalfEven(raw.SolarAdoption * 10, MetricDen)
       /\ persona' = "GRAINA" =>
            page'.response.nums[2] =
              RoundHalfEven(raw.CarbonCreditsEarned * 100, MetricDen)

C10_ResponseIgnoresToggles == [][C10_Step]_vars

C10_Witness ==
  /\ Ran
  /\ question = "q2"
  /\ persona = "EIREA"
  /\ agro_toggle /\ solar_toggle /\ bio_toggle
  /\ page.response.text = "EIREA"
  /\ page.response.nums[2] # page.kpi_display[1]

====
